---- MODULE Spec2Model ----
(***************************************************************************)
(* Opplafy Tenant Manager: the four HTTP handlers of controller.py         *)
(* (POST /tenant, GET /tenant, GET /tenant/<id>, GET /users) as processes  *)
(* that step from one call of an external client to the next.  The store,  *)
(* the identity provider (Keyrock) and the gateway (Umbrella) are shared   *)
(* state; every call to them may succeed or raise.                         *)
(***************************************************************************)
EXTENDS Integers, Sequences, FiniteSets, TLC

(* ------------------------------ bounds --------------------------------- *)
\* POST /tenant requests received in one behaviour
MaxPosts == 2
\* longest users list of a request body
MaxUsers == 2

(* ----------------------------- settings -------------------------------- *)
BROKER_APP_ID == "broker-app"
BAE_APP_ID == "bae-app"
BROKER_ADMIN_ROLE == "admin-role"
BROKER_CONSUMER_ROLE == "consumer-role"
BAE_SELLER_ROLE == "seller-role"
BAE_CUSTOMER_ROLE == "customer-role"
BAE_ADMIN_ROLE == "orgAdmin-role"

(* ------------------------------ inputs --------------------------------- *)
\* gunicorn workers handling requests in parallel
Workers == {"w1", "w2"}

\* tenant names, as sequences of characters
Names == { <<"A", " ", "B">>, <<"a", "_", "b">>, <<"c">> }
Descriptions == {"d"}

\* identity-provider users: name -> user id
UserNames == {"ann", "bob"}
KeyrockUserId(name) == IF name = "ann" THEN "id-ann" ELSE "id-bob"
KeyrockUserName(id) == IF id = "id-ann" THEN "ann" ELSE "bob"
\* authenticated callers, as passed by @authorized
UserInfos == { [id |-> KeyrockUserId(n)] : n \in UserNames }

\* 'roles' lists of a user entry
RoleLists == SUBSET {BROKER_ADMIN_ROLE, BROKER_CONSUMER_ROLE}
\* names used in the users list of a body
ListedNames == {"bob"}
UserEntries ==
    { [name |-> n, roles |-> r] : n \in ListedNames, r \in RoleLists }
      \cup { [name |-> n] : n \in ListedNames }
      \cup { [roles |-> r] : r \in {{BROKER_CONSUMER_ROLE}} }
UserLists == UNION { [1..k -> UserEntries] : k \in 0..MaxUsers }

\* request bodies of POST /tenant: JSON objects with any of the three keys
Bodies ==
    LET N == { [name |-> n] : n \in Names } \cup { <<>> }
        D == { [description |-> d] : d \in Descriptions } \cup { <<>> }
        U == { [users |-> u] : u \in UserLists } \cup { <<>> }
    IN  { n @@ d @@ u : n \in N, d \in D, u \in U }

\* str.lower() on one character
Lower(c) == CASE c = "A" -> "a" [] c = "B" -> "b" [] c = "C" -> "c" [] OTHER -> c
\* str.replace(' ', '_') on one character
Underscore(c) == IF c = " " THEN "_" ELSE c

\* mutant: the id keeps the case of the name
TenantIdCaseKept(name) == [i \in 1..Len(name) |-> Underscore(name[i])]

\* mutant: the id keeps the spaces of the name
TenantIdSpacesKept(name) == [i \in 1..Len(name) |-> Lower(name[i])]

\* line 101: tenant_id = name.lower().replace(' ', '_')
TenantId(name) == [i \in 1..Len(name) |-> Underscore(Lower(name[i]))]

\* ids asked for in GET /tenant/<tenant_id>
PathIds == { TenantId(n) : n \in Names } \cup { <<"z">> }

(* ------------------------------- state --------------------------------- *)
VARIABLES
    request,     \* per worker: the request it handles (handler, user_info, json, tenant_id)
    local,       \* per worker: position in the handler and its local variables
    response,    \* per worker: the HTTP response returned, status 0 while none
    calls,       \* per worker: the calls made to external clients by this request
    store,       \* DatabaseController: the tenant records
    organizations, \* Keyrock: ids of the organizations created
    authorized,  \* Keyrock: <<org, app, role, org role>> authorizations
    members,     \* Keyrock: [org, user_id, role] organization memberships
    policies,    \* Umbrella: sub-url settings added to the broker application
    posts        \* POST /tenant requests received so far

vars == <<request, local, response, calls, store, organizations, authorized,
          members, policies, posts>>
external == <<store, organizations, authorized, members, policies>>

NoRequest == [handler |-> "none"]
\* i: entries of the loop the handler is in that are done
NoLocal == [pc |-> "idle", tenant_id |-> <<>>, org_id |-> 0, i |-> 0,
            user_id |-> "", data |-> <<>>]
NoResponse == [status |-> 0, body |-> ""]

\* outcome of a call to an external client: it returns, or raises
Ok == [cls |-> "ok", msg |-> ""]
KeyrockOutcomes ==
    {Ok} \cup { [cls |-> "KeyrockError", msg |-> m] : m \in {"keyrock rejected", "keyrock conflict"} }
         \cup { [cls |-> "Exception", msg |-> "connection error"] }
UmbrellaOutcomes ==
    {Ok} \cup { [cls |-> "UmbrellaError", msg |-> m] : m \in {"umbrella rejected"} }
         \cup { [cls |-> "Exception", msg |-> "connection error"] }
DatabaseOutcomes ==
    {Ok} \cup { [cls |-> "Exception", msg |-> "mongo error"] }

\* one entry of calls: the call site (step, and loop index where in a loop),
\* the client, the arguments and the outcome
Call(client, step, idx, args, out) ==
    [client |-> client, step |-> step, idx |-> idx, args |-> args, out |-> out]

build_response(body, status) == [status |-> status, body |-> body]

Init ==
    /\ request = [p \in Workers |-> NoRequest]
    /\ local = [p \in Workers |-> NoLocal]
    /\ response = [p \in Workers |-> NoResponse]
    /\ calls = [p \in Workers |-> <<>>]
    /\ store = {}
    /\ organizations = {}
    /\ authorized = {}
    /\ members = {}
    /\ policies = {}
    /\ posts = 0

\* the handler returns `resp`
Return(p, resp) ==
    /\ response' = [response EXCEPT ![p] = resp]
    /\ local' = [local EXCEPT ![p].pc = "done"]

\* the handler goes on to `pc`
Goto(p, pc) ==
    /\ local' = [local EXCEPT ![p].pc = pc]
    /\ UNCHANGED response

Log(p, c) == calls' = [calls EXCEPT ![p] = Append(@, c)]

(* --------------------------- request arrival --------------------------- *)
\* a worker that is free (or has answered) takes the next request
Receive(p, req) ==
    /\ local[p].pc \in {"idle", "done"}
    /\ request' = [request EXCEPT ![p] = req]
    /\ local' = [local EXCEPT ![p] = [NoLocal EXCEPT !.pc = "start"]]
    /\ response' = [response EXCEPT ![p] = NoResponse]
    /\ calls' = [calls EXCEPT ![p] = <<>>]
    /\ UNCHANGED external

\* POST /tenant with a body of `bodies`
Post(p, bodies) ==
    /\ posts < MaxPosts
    /\ posts' = posts + 1
    /\ \E u \in UserInfos, j \in bodies :
        Receive(p, [handler |-> "create", user_info |-> u, json |-> j])

\* the first request of a fresh deployment: any body
PostFirst(p) ==
    /\ posts = 0
    /\ Post(p, Bodies)

\* bodies that fail one of the three checks of lines 82-97
InvalidBodies ==
    { [description |-> "d"],
      [name |-> <<"c">>],
      [name |-> <<"c">>, description |-> "d", users |-> << [name |-> "bob"] >>] }

\* the bodies sent in a row: complete ones, without users or with one
\* consumer, and the invalid ones
SequenceBodies ==
    { j \in Bodies :
        /\ {"name", "description"} \subseteq DOMAIN j
        /\ "users" \in DOMAIN j =>
              j.users = << [name |-> "bob", roles |-> {BROKER_CONSUMER_ROLE}] >> }
      \cup InvalidBodies

PostTenant(p) == Post(p, SequenceBodies)

\* the bodies sent while two workers run in parallel: complete ones, without
\* users or with a member and an owner
ParallelBodies ==
    { [name |-> n, description |-> d] : n \in Names, d \in Descriptions }
      \cup { [name |-> n, description |-> d,
              users |-> << [name |-> "bob", roles |-> {BROKER_CONSUMER_ROLE}],
                           [name |-> "bob", roles |-> {BROKER_ADMIN_ROLE}] >>]
               : n \in Names, d \in Descriptions }

PostTenantParallel(p) == Post(p, ParallelBodies)

(* ---------------------------- POST /tenant ----------------------------- *)
\* mutant: the check of description is left out
MissingFieldNoDescription(json) ==
    IF "name" \notin DOMAIN json
    THEN "Missing required field name"
    ELSE IF "users" \in DOMAIN json /\
            \E k \in 1..Len(json.users) :
                "name" \notin DOMAIN json.users[k] \/ "roles" \notin DOMAIN json.users[k]
    THEN "Missing required field in user specification"
    ELSE ""

\* mutant: only the first entry of users is checked
MissingFieldFirstUserOnly(json) ==
    IF "name" \notin DOMAIN json
    THEN "Missing required field name"
    ELSE IF "description" \notin DOMAIN json
    THEN "Missing required field description"
    ELSE IF "users" \in DOMAIN json /\
            \E k \in 1..Len(json.users) :
                k = 1 /\ ("name" \notin DOMAIN json.users[k]
                             \/ "roles" \notin DOMAIN json.users[k])
    THEN "Missing required field in user specification"
    ELSE ""

\* lines 82-97: the 422 checks on the body, "" when it passes
MissingField(json) ==
    IF "name" \notin DOMAIN json
    THEN "Missing required field name"
    ELSE IF "description" \notin DOMAIN json
    THEN "Missing required field description"
    ELSE IF "users" \in DOMAIN json /\
            \E k \in 1..Len(json.users) :
                "name" \notin DOMAIN json.users[k] \/ "roles" \notin DOMAIN json.users[k]
    THEN "Missing required field in user specification"
    ELSE ""

\* mutant: a single except clause, every failure is a 500
CreateExceptAll500(e) ==
    build_response([error |-> "Unexpected error creating tenant"], 500)
\* mutant: a conflict reported by the identity provider is answered 409
CreateExceptConflict409(e) ==
    IF e.cls = "KeyrockError" /\ e.msg = "keyrock conflict"
    THEN build_response([error |-> e.msg], 409)
    ELSE IF e.cls \in {"KeyrockError", "UmbrellaError"}
    THEN build_response([error |-> e.msg], 400)
    ELSE build_response([error |-> "Unexpected error creating tenant"], 500)

\* lines 139-146: the two except clauses of create
CreateExcept(e) ==
    IF e.cls \in {"KeyrockError", "UmbrellaError"}
    THEN build_response([error |-> e.msg], 400)
    ELSE build_response([error |-> "Unexpected error creating tenant"], 500)

\* lines 82-101: validation, then the tenant id
CreateValidate(p) ==
    /\ request[p].handler = "create"
    /\ local[p].pc = "start"
    /\ LET json == request[p].json IN
       IF MissingField(json) # ""
       THEN /\ Return(p, build_response([error |-> MissingField(json)], 422))
       ELSE /\ local' = [local EXCEPT ![p].pc = "get_tenant",
                                      ![p].tenant_id = TenantId(json.name)]
            /\ UNCHANGED response
    /\ UNCHANGED <<request, calls, external, posts>>

\* mutant: the lookup is made and its result is not looked at
CreateGetTenantUnchecked(p) ==
    /\ request[p].handler = "create"
    /\ local[p].pc = "get_tenant"
    /\ \E out \in DatabaseOutcomes :
        /\ Log(p, Call("database", "get_tenant", 0, <<local[p].tenant_id>>, out))
        /\ IF out # Ok THEN Return(p, CreateExcept(out))
           ELSE Goto(p, "create_organization")
    /\ UNCHANGED <<request, external, posts>>

\* lines 102-108: the duplicate check
CreateGetTenant(p) ==
    /\ request[p].handler = "create"
    /\ local[p].pc = "get_tenant"
    /\ \E out \in DatabaseOutcomes :
        /\ Log(p, Call("database", "get_tenant", 0, <<local[p].tenant_id>>, out))
        /\ IF out # Ok THEN Return(p, CreateExcept(out))
           ELSE IF \E t \in store : t.id = local[p].tenant_id
           THEN Return(p, build_response(
                         [error |-> <<"The tenant", local[p].tenant_id, "is already registered">>], 409))
           ELSE Goto(p, "create_organization")
    /\ UNCHANGED <<request, external, posts>>

\* lines 110-112: the organization, owned by the caller
CreateOrganization(p) ==
    /\ request[p].handler = "create"
    /\ local[p].pc = "create_organization"
    /\ \E out \in KeyrockOutcomes :
        LET json == request[p].json
            owner == request[p].user_info.id
            org == Cardinality(organizations) + 1
        IN
        /\ Log(p, Call("keyrock", "create_organization", 0,
                       <<json.name, json.description, owner>>, out))
        /\ IF out # Ok
           THEN /\ Return(p, CreateExcept(out))
                /\ UNCHANGED <<organizations, members>>
           ELSE /\ organizations' = organizations \cup {org}
                /\ members' = members \cup {[org |-> org, user_id |-> owner, role |-> "owner"]}
                /\ local' = [local EXCEPT ![p].pc = "authorize_organization",
                                          ![p].org_id = org]
                /\ UNCHANGED response
    /\ UNCHANGED <<request, store, authorized, policies, posts>>

\* a call to keyrock_client.authorize_*: on success `auths` are added and the
\* handler goes on to `next`
Authorize(p, step, args, auths, next) ==
    /\ request[p].handler = "create"
    /\ local[p].pc = step
    /\ \E out \in KeyrockOutcomes :
        /\ Log(p, Call("keyrock", step, 0, args, out))
        /\ IF out # Ok
           THEN /\ Return(p, CreateExcept(out))
                /\ UNCHANGED authorized
           ELSE /\ authorized' = authorized \cup auths
                /\ Goto(p, next)
    /\ UNCHANGED <<request, store, organizations, members, policies, posts>>

\* mutant: the loop falls through to the save, past the access policies
UsersLoopSkipsPolicies(json, i) ==
    IF "users" \in DOMAIN json /\ i < Len(json.users)
    THEN "get_user_id"
    ELSE "save_tenant"

\* the users loop of lines 123-133 after i entries: the next call site
UsersLoop(json, i) ==
    IF "users" \in DOMAIN json /\ i < Len(json.users)
    THEN "get_user_id"
    ELSE "create_access_policies"

\* mutant: member for every consumer, the admin ones too
GrantsMemberAnyConsumer(roles) == BROKER_CONSUMER_ROLE \in roles

\* line 129 and line 132: the conditions of the two grants
GrantsMember(roles) ==
    BROKER_CONSUMER_ROLE \in roles /\ ~ (BROKER_ADMIN_ROLE \in roles)
GrantsOwner(roles) == BROKER_ADMIN_ROLE \in roles

\* line 115
AuthorizeOrganization(p) ==
    LET org == local[p].org_id IN
    Authorize(p, "authorize_organization",
              <<org, BROKER_APP_ID, BROKER_ADMIN_ROLE, BROKER_CONSUMER_ROLE>>,
              { <<org, BROKER_APP_ID, BROKER_ADMIN_ROLE, "owner">>,
                <<org, BROKER_APP_ID, BROKER_CONSUMER_ROLE, "member">> },
              "authorize_seller")

\* line 118
AuthorizeSeller(p) ==
    LET org == local[p].org_id IN
    Authorize(p, "authorize_seller", <<org, BAE_APP_ID, BAE_SELLER_ROLE, "owner">>,
              { <<org, BAE_APP_ID, BAE_SELLER_ROLE, "owner">> }, "authorize_customer")

\* line 119
AuthorizeCustomer(p) ==
    LET org == local[p].org_id IN
    Authorize(p, "authorize_customer", <<org, BAE_APP_ID, BAE_CUSTOMER_ROLE, "owner">>,
              { <<org, BAE_APP_ID, BAE_CUSTOMER_ROLE, "owner">> }, "authorize_admin")

\* mutant: the users loop is left out
AuthorizeAdminSkipsUsers(p) ==
    LET org == local[p].org_id IN
    Authorize(p, "authorize_admin", <<org, BAE_APP_ID, BAE_ADMIN_ROLE, "owner">>,
              { <<org, BAE_APP_ID, BAE_ADMIN_ROLE, "owner">> },
              "create_access_policies")

\* line 120, then the head of the users loop
AuthorizeAdmin(p) ==
    LET org == local[p].org_id IN
    Authorize(p, "authorize_admin", <<org, BAE_APP_ID, BAE_ADMIN_ROLE, "owner">>,
              { <<org, BAE_APP_ID, BAE_ADMIN_ROLE, "owner">> },
              UsersLoop(request[p].json, 0))

\* line 126: resolve the entry's user id, then lines 129 and 132 choose the grant
GetUserId(p) ==
    /\ request[p].handler = "create"
    /\ local[p].pc = "get_user_id"
    /\ \E out \in KeyrockOutcomes :
        LET json == request[p].json
            k == local[p].i + 1
            user == json.users[k]
        IN
        /\ Log(p, Call("keyrock", "get_user_id", k, <<user.name>>, out))
        /\ IF out # Ok
           THEN Return(p, CreateExcept(out))
           ELSE /\ local' = [local EXCEPT
                    ![p].user_id = KeyrockUserId(user.name),
                    ![p].i = IF GrantsMember(user.roles) \/ GrantsOwner(user.roles)
                             THEN @ ELSE k,
                    ![p].pc = IF GrantsMember(user.roles) THEN "grant_member"
                              ELSE IF GrantsOwner(user.roles) THEN "grant_owner"
                              ELSE UsersLoop(json, k)]
                /\ UNCHANGED response
    /\ UNCHANGED <<request, external, posts>>

\* a call to keyrock_client.grant_organization_role for the current entry
Grant(p, step, role) ==
    /\ request[p].handler = "create"
    /\ local[p].pc = step
    /\ \E out \in KeyrockOutcomes :
        LET json == request[p].json
            k == local[p].i + 1
            user == json.users[k]
            more == step = "grant_member" /\ GrantsOwner(user.roles)
        IN
        /\ Log(p, Call("keyrock", "grant_organization_role", k,
                       <<local[p].org_id, local[p].user_id, role>>, out))
        /\ IF out # Ok
           THEN /\ Return(p, CreateExcept(out))
                /\ UNCHANGED members
           ELSE /\ members' = members \cup
                       {[org |-> local[p].org_id, user_id |-> local[p].user_id, role |-> role]}
                /\ local' = [local EXCEPT
                       ![p].i = IF more THEN @ ELSE k,
                       ![p].pc = IF more THEN "grant_owner" ELSE UsersLoop(json, k)]
                /\ UNCHANGED response
    /\ UNCHANGED <<request, store, organizations, authorized, policies, posts>>

\* line 130
GrantMember(p) == Grant(p, "grant_member", "member")

\* line 133
GrantOwner(p) == Grant(p, "grant_owner", "owner")

\* lines 39-53
_build_policy(method, tenant, role) ==
    [http_method |-> method, regex |-> "^/",
     settings |-> [required_headers |-> <<[key |-> "Fiware-Service", value |-> tenant]>>,
                   required_roles |-> <<role>>,
                   required_roles_override |-> TRUE]]

\* lines 56-66: the two policies added to the broker application; a role
\* org_id + '.' + ROLE is the pair <<org_id, ROLE>>
AccessPolicies(tenant, org_id) ==
    << _build_policy("GET", tenant, <<org_id, BROKER_CONSUMER_ROLE>>),
       _build_policy("any", tenant, <<org_id, BROKER_ADMIN_ROLE>>) >>

\* mutant: a failed policy creation deletes the organization again
CreateAccessPoliciesRollback(p) ==
    /\ request[p].handler = "create"
    /\ local[p].pc = "create_access_policies"
    /\ \E out \in UmbrellaOutcomes :
        LET new == AccessPolicies(local[p].tenant_id, local[p].org_id) IN
        /\ Log(p, Call("umbrella", "add_sub_url_setting_app_id", 0,
                       <<BROKER_APP_ID, new>>, out))
        /\ IF out # Ok
           THEN /\ Return(p, CreateExcept(out))
                /\ organizations' = organizations \ {local[p].org_id}
                /\ UNCHANGED policies
           ELSE /\ policies' = policies \cup {new[1], new[2]}
                /\ Goto(p, "save_tenant")
                /\ UNCHANGED organizations
    /\ UNCHANGED <<request, store, authorized, members, posts>>

\* line 135
CreateAccessPolicies(p) ==
    /\ request[p].handler = "create"
    /\ local[p].pc = "create_access_policies"
    /\ \E out \in UmbrellaOutcomes :
        LET new == AccessPolicies(local[p].tenant_id, local[p].org_id) IN
        /\ Log(p, Call("umbrella", "add_sub_url_setting_app_id", 0,
                       <<BROKER_APP_ID, new>>, out))
        /\ IF out # Ok
           THEN /\ Return(p, CreateExcept(out))
                /\ UNCHANGED policies
           ELSE /\ policies' = policies \cup {new[1], new[2]}
                /\ Goto(p, "save_tenant")
    /\ UNCHANGED <<request, store, organizations, authorized, members, posts>>

\* DatabaseController.save_tenant(tenant_id, name, description, owner, org_id):
\* the record it inserts, with the field names the handlers read back
TenantRecord(tenant_id, name, description, user_id, org_id) ==
    [id |-> tenant_id, name |-> name, description |-> description,
     user_id |-> user_id, tenant_organization |-> org_id]

\* lines 136-148: persist the record, then 201
SaveTenant(p) ==
    /\ request[p].handler = "create"
    /\ local[p].pc = "save_tenant"
    /\ \E out \in DatabaseOutcomes :
        LET json == request[p].json
            args == <<local[p].tenant_id, json.name, json.description,
                      request[p].user_info.id, local[p].org_id>>
        IN
        /\ Log(p, Call("database", "save_tenant", 0, args, out))
        /\ IF out # Ok
           THEN /\ Return(p, CreateExcept(out))
                /\ UNCHANGED store
           ELSE /\ store' = store \cup
                      {TenantRecord(args[1], args[2], args[3], args[4], args[5])}
                /\ Return(p, build_response("", 201))
    /\ UNCHANGED <<request, organizations, authorized, members, policies, posts>>

(* ----------------------- GET /tenant, GET /tenant/<id> ------------------ *)
GetTenants(p) ==
    /\ UNCHANGED posts
    /\ \E u \in UserInfos : Receive(p, [handler |-> "get", user_info |-> u])

GetTenantById(p) ==
    /\ UNCHANGED posts
    /\ \E u \in UserInfos, t \in PathIds :
        Receive(p, [handler |-> "get_tenant", user_info |-> u, tenant_id |-> t])

GetUsers(p) ==
    /\ UNCHANGED posts
    /\ \E u \in UserInfos : Receive(p, [handler |-> "get_users", user_info |-> u])

\* a finite set as a list, in the order the client returns it
RECURSIVE ListOf(_)
ListOf(S) ==
    IF S = {} THEN <<>>
    ELSE LET x == CHOOSE y \in S : TRUE IN <<x>> \o ListOf(S \ {x})

\* DatabaseController.read_tenants(user_id): the records of that owner
read_tenants(user_id) == ListOf({ t \in store : t.user_id = user_id })

\* KeyrockClient.get_organization_members(org_id)
get_organization_members(org_id) ==
    LET ms == ListOf({ m \in members : m.org = org_id }) IN
    [k \in 1..Len(ms) |->
        [user_id |-> ms[k].user_id, name |-> KeyrockUserName(ms[k].user_id),
         role |-> ms[k].role]]

\* mutant: an owner is reported as admin only
MapRolesOwnerAdminOnly(member) ==
    IF member.role = "owner"
    THEN <<BROKER_ADMIN_ROLE>>
    ELSE <<BROKER_CONSUMER_ROLE>>

\* lines 69-75
_map_roles(member) ==
    IF member.role = "owner"
    THEN <<BROKER_CONSUMER_ROLE, BROKER_ADMIN_ROLE>>
    ELSE <<BROKER_CONSUMER_ROLE>>

\* lines 163-167 and 198-202: tenant['users'] = [...]
WithUsers(tenant, ms) ==
    [users |-> [k \in 1..Len(ms) |->
                   [id |-> ms[k].user_id, name |-> ms[k].name,
                    roles |-> _map_roles(ms[k])]]] @@ tenant

\* the except clause of get and get_tenant
ReadExcept == build_response([error |-> "An error occurred reading tenants"], 500)

\* lines 156-157, and line 174 when there is no tenant to enrich: the
\* tenants of `user_id` are read
ReadTenantsOf(p, user_id) ==
    /\ request[p].handler = "get"
    /\ local[p].pc = "start"
    /\ \E out \in DatabaseOutcomes :
        LET data == read_tenants(user_id) IN
        /\ Log(p, Call("database", "read_tenants", 0, <<user_id>>, out))
        /\ IF out # Ok THEN Return(p, ReadExcept)
           ELSE IF Len(data) = 0
           THEN /\ response' = [response EXCEPT ![p] = build_response(data, 200)]
                /\ local' = [local EXCEPT ![p].pc = "done", ![p].data = data]
           ELSE /\ local' = [local EXCEPT ![p].pc = "get_organization_members",
                                          ![p].data = data]
                /\ UNCHANGED response
    /\ UNCHANGED <<request, external, posts>>

\* mutant: the tenants read are those of a fixed user, not of the caller
ReadTenantsOfAnn(p) == ReadTenantsOf(p, "id-ann")

\* line 157: the tenants read are the caller's
ReadTenants(p) == ReadTenantsOf(p, request[p].user_info.id)

\* mutant: when a membership fetch fails, the tenants read so far are returned
LoadMembersPartial(p) ==
    /\ request[p].handler = "get"
    /\ local[p].pc = "get_organization_members"
    /\ \E out \in KeyrockOutcomes :
        LET k == local[p].i + 1
            tenant == local[p].data[k]
            data == [local[p].data EXCEPT ![k] =
                        WithUsers(tenant, get_organization_members(tenant.tenant_organization))]
        IN
        /\ Log(p, Call("keyrock", "get_organization_members", k,
                       <<tenant.tenant_organization>>, out))
        /\ IF out # Ok THEN Return(p, build_response(local[p].data, 200))
           ELSE IF k = Len(data)
           THEN /\ response' = [response EXCEPT ![p] = build_response(data, 200)]
                /\ local' = [local EXCEPT ![p].pc = "done", ![p].data = data, ![p].i = k]
           ELSE /\ local' = [local EXCEPT ![p].data = data, ![p].i = k]
                /\ UNCHANGED response
    /\ UNCHANGED <<request, external, posts>>

\* lines 161-174: one turn of the loop over the caller's tenants
LoadMembers(p) ==
    /\ request[p].handler = "get"
    /\ local[p].pc = "get_organization_members"
    /\ \E out \in KeyrockOutcomes :
        LET k == local[p].i + 1
            tenant == local[p].data[k]
            data == [local[p].data EXCEPT ![k] =
                        WithUsers(tenant, get_organization_members(tenant.tenant_organization))]
        IN
        /\ Log(p, Call("keyrock", "get_organization_members", k,
                       <<tenant.tenant_organization>>, out))
        /\ IF out # Ok THEN Return(p, ReadExcept)
           ELSE IF k = Len(data)
           THEN /\ response' = [response EXCEPT ![p] = build_response(data, 200)]
                /\ local' = [local EXCEPT ![p].pc = "done", ![p].data = data, ![p].i = k]
           ELSE /\ local' = [local EXCEPT ![p].data = data, ![p].i = k]
                /\ UNCHANGED response
    /\ UNCHANGED <<request, external, posts>>

\* mutant: the owner is not compared with the caller
IsOwnerAnyone(tenant_info, user_info) == TRUE

\* mutant: the comparison of line 190 is the wrong way round
IsOwnerInverted(tenant_info, user_info) == tenant_info.user_id # user_info.id

\* line 190
IsOwner(tenant_info, user_info) == tenant_info.user_id = user_info.id

\* lines 182-193: fetch the record, 404 if absent, 403 if not the caller's
FetchTenant(p) ==
    /\ request[p].handler = "get_tenant"
    /\ local[p].pc = "start"
    /\ \E out \in DatabaseOutcomes :
        LET tenant_id == request[p].tenant_id
            found == { t \in store : t.id = tenant_id }
        IN
        /\ Log(p, Call("database", "get_tenant", 0, <<tenant_id>>, out))
        /\ IF out # Ok THEN Return(p, ReadExcept)
           ELSE IF found = {}
           THEN Return(p, build_response(
                    [error |-> <<"Tenant", tenant_id, "does not exist">>], 404))
           ELSE \E tenant_info \in found :
                IF ~ IsOwner(tenant_info, request[p].user_info)
                THEN Return(p, build_response(
                    [error |-> "You are not authorized to retrieve tenant info"], 403))
                ELSE /\ local' = [local EXCEPT ![p].pc = "get_organization_members",
                                               ![p].data = <<tenant_info>>]
                     /\ UNCHANGED response
    /\ UNCHANGED <<request, external, posts>>

\* lines 196-209
FetchMembers(p) ==
    /\ request[p].handler = "get_tenant"
    /\ local[p].pc = "get_organization_members"
    /\ \E out \in KeyrockOutcomes :
        LET tenant_info == local[p].data[1]
            org == tenant_info.tenant_organization
        IN
        /\ Log(p, Call("keyrock", "get_organization_members", 0, <<org>>, out))
        /\ IF out # Ok THEN Return(p, ReadExcept)
           ELSE Return(p, build_response(
                    WithUsers(tenant_info, get_organization_members(org)), 200))
    /\ UNCHANGED <<request, external, posts>>

(* ----------------------------- GET /users ------------------------------ *)
\* KeyrockClient.get_users(): the provider's own response
get_users == build_response([users |-> ListOf(UserNames)], 200)

\* lines 215-226
ProxyUsers(p) ==
    /\ request[p].handler = "get_users"
    /\ local[p].pc = "start"
    /\ \E out \in KeyrockOutcomes :
        /\ Log(p, Call("keyrock", "get_users", 0, <<>>, out))
        /\ IF out = Ok THEN Return(p, get_users)
           ELSE IF out.cls = "KeyrockError"
           THEN Return(p, build_response([error |-> out.msg], 400))
           ELSE Return(p, ReadExcept)
    /\ UNCHANGED <<request, external, posts>>

(* ------------------------------ behaviour ------------------------------ *)
Next ==
    \E p \in {"w1"} :
        \/ PostTenant(p)
        \/ GetTenants(p)
        \/ GetTenantById(p)
        \/ GetUsers(p)
        \/ ReadTenants(p)
        \/ LoadMembers(p)
        \/ FetchTenant(p)
        \/ FetchMembers(p)
        \/ ProxyUsers(p)
        \/ CreateValidate(p)
        \/ CreateGetTenant(p)
        \/ CreateOrganization(p)
        \/ AuthorizeOrganization(p)
        \/ AuthorizeSeller(p)
        \/ AuthorizeCustomer(p)
        \/ AuthorizeAdmin(p)
        \/ GetUserId(p)
        \/ GrantMember(p)
        \/ CreateAccessPolicies(p)
        \/ SaveTenant(p)

\* one worker: requests are served one at a time; the users listed in
\* SequenceBodies are consumers, so line 133 is not reached here (it is in
\* SpecCreate and SpecParallel)
Spec == Init /\ [][Next]_vars

\* one worker, one POST /tenant, with any body and any users list
NextCreate ==
    \E p \in {"w1"} :
        \/ PostFirst(p)
        \/ CreateValidate(p)
        \/ CreateGetTenant(p)
        \/ CreateOrganization(p)
        \/ AuthorizeOrganization(p)
        \/ AuthorizeSeller(p)
        \/ AuthorizeCustomer(p)
        \/ AuthorizeAdmin(p)
        \/ GetUserId(p)
        \/ GrantMember(p)
        \/ GrantOwner(p)
        \/ CreateAccessPolicies(p)
        \/ SaveTenant(p)

SpecCreate == Init /\ [][NextCreate]_vars

\* two workers: the steps of two POST /tenant requests interleave
NextParallel ==
    \E p \in Workers :
        \/ PostTenantParallel(p)
        \/ CreateValidate(p)
        \/ CreateGetTenant(p)
        \/ CreateOrganization(p)
        \/ AuthorizeOrganization(p)
        \/ AuthorizeSeller(p)
        \/ AuthorizeCustomer(p)
        \/ AuthorizeAdmin(p)
        \/ GetUserId(p)
        \/ GrantMember(p)
        \/ GrantOwner(p)
        \/ CreateAccessPolicies(p)
        \/ SaveTenant(p)

SpecParallel == Init /\ [][NextParallel]_vars

(* ------------------------------ properties ----------------------------- *)
IsCreate(p) == request[p].handler = "create"
Last(s) == s[Len(s)]

\* the tenant id as the specification words it: the name lower-cased, every
\* space replaced by an underscore
LowerCased(c) == IF c = "A" THEN "a" ELSE IF c = "B" THEN "b" ELSE IF c = "C" THEN "c" ELSE c
Normalized(name) ==
    [k \in 1..Len(name) |-> IF name[k] = " " THEN "_" ELSE LowerCased(name[k])]

\* the worker makes a call in this step and the call returns
CallReturns(p) ==
    /\ Len(calls'[p]) = Len(calls[p]) + 1
    /\ Last(calls'[p]).out = Ok

\* C1: a POST /tenant whose name normalizes to an id already in the store gets
\* 409 on the lookup (when the lookup answers), and that request changes nothing
\* in the store, the identity provider or the gateway: its only call is the lookup.
C1_DuplicateRejected ==
    /\ [][\A p \in Workers :
            ( /\ IsCreate(p)
              /\ local[p].pc = "get_tenant"
              /\ CallReturns(p)
              /\ \E t \in store : t.id = Normalized(request[p].json.name) )
            => ( /\ response'[p].status = 409
                 /\ local'[p].pc = "done"
                 /\ external' = external )]_vars
    /\ [](\A p \in Workers :
            (IsCreate(p) /\ response[p].status = 409)
            => ( /\ Len(calls[p]) = 1
                 /\ calls[p][1].step = "get_tenant"
                 /\ local[p].org_id = 0
                 /\ \E t \in store : t.id = Normalized(request[p].json.name) ))

\* C1 witness: a 409 for a name that differs from the registered one and
\* normalizes to its id
C1_Witness ==
    \E p \in Workers, t \in store :
        /\ IsCreate(p)
        /\ response[p].status = 409
        /\ t.name # request[p].json.name
        /\ t.id = Normalized(request[p].json.name)

\* the two access policies of tenant `tid` under organization `org` are in the gateway
PoliciesCreated(tid, org) ==
    \E read, admin \in policies :
        /\ read.http_method = "GET" /\ admin.http_method = "any"
        /\ read.settings.required_headers[1].value = tid
        /\ admin.settings.required_headers[1].value = tid
        /\ read.settings.required_roles = << <<org, BROKER_CONSUMER_ROLE>> >>
        /\ admin.settings.required_roles = << <<org, BROKER_ADMIN_ROLE>> >>

Quiescent == \A p \in Workers : local[p].pc \in {"idle", "done"}

\* C2 as stated, taken at the states where no request is in progress: a record
\* is in the store if and only if its organization and its two access policies
\* were created.
C2_RecordIffUpstream ==
    Quiescent =>
        /\ \A t \in store :
              t.tenant_organization \in organizations
                  /\ PoliciesCreated(t.id, t.tenant_organization)
        /\ \A org \in organizations, tid \in PathIds :
              PoliciesCreated(tid, org)
                  => \E t \in store : t.id = tid /\ t.tenant_organization = org

\* C2 amended: in every reachable state, a record in the store has its
\* organization and its two access policies created upstream (only if).
C2_RecordOnlyIfUpstream ==
    \A t \in store :
        t.tenant_organization \in organizations
            /\ PoliciesCreated(t.id, t.tenant_organization)

\* C2 witness: a record is stored, and another organization has its policies
\* and no record because the save failed
C2_Witness ==
    /\ store # {}
    /\ \E p \in Workers :
        /\ IsCreate(p) /\ response[p].status = 500
        /\ Last(calls[p]).step = "save_tenant"
        /\ PoliciesCreated(local[p].tenant_id, local[p].org_id)

\* the steps of create from organization creation through access-policy creation
WorkflowSteps ==
    {"create_organization", "authorize_organization", "authorize_seller",
     "authorize_customer", "authorize_admin", "get_user_id",
     "grant_organization_role", "add_sub_url_setting_app_id"}

\* C3: in POST /tenant a call from organization creation through access-policy
\* creation that raises is the last call of the request, no record of the
\* request is stored, and the response is 400 with the raised message for a
\* KeyrockError or UmbrellaError and 500 with the generic message otherwise.
C3_FailureAborts ==
    \A p \in Workers :
        IsCreate(p) =>
            \A k \in 1..Len(calls[p]) :
                LET c == calls[p][k] IN
                (c.step \in WorkflowSteps /\ c.out # Ok) =>
                    /\ k = Len(calls[p])
                    /\ local[p].pc = "done"
                    /\ \A t \in store : t.tenant_organization # local[p].org_id
                    /\ IF c.out.cls \in {"KeyrockError", "UmbrellaError"}
                       THEN /\ response[p].status = 400
                            /\ response[p].body.error = c.out.msg
                       ELSE /\ response[p].status = 500
                            /\ response[p].body.error = "Unexpected error creating tenant"

\* C3 witness: a grant fails with a provider rejection after the organization
\* was created and authorized
C3_Witness ==
    \E p \in Workers :
        /\ IsCreate(p) /\ response[p].status = 400
        /\ Last(calls[p]).step = "grant_organization_role"
        /\ Last(calls[p]).out.cls = "KeyrockError"

\* the side effect of a call of create that returned is in place
Applied(c) ==
    CASE c.step = "authorize_organization" ->
            /\ <<c.args[1], c.args[2], c.args[3], "owner">> \in authorized
            /\ <<c.args[1], c.args[2], c.args[4], "member">> \in authorized
      [] c.step \in {"authorize_seller", "authorize_customer", "authorize_admin"} ->
            c.args \in authorized
      [] c.step = "grant_organization_role" ->
            [org |-> c.args[1], user_id |-> c.args[2], role |-> c.args[3]] \in members
      [] c.step = "add_sub_url_setting_app_id" ->
            c.args[2][1] \in policies /\ c.args[2][2] \in policies
      [] OTHER -> TRUE

\* C4: POST /tenant neither rolls back nor retries: no step removes anything
\* from the store, the identity provider or the gateway; after a failed
\* request that had created its organization, the organization and the effect
\* of every call that returned are in place; no call site is tried twice.
C4_NoRollbackNoRetry ==
    /\ [][ /\ store \subseteq store'
           /\ organizations \subseteq organizations'
           /\ authorized \subseteq authorized'
           /\ members \subseteq members'
           /\ policies \subseteq policies' ]_vars
    /\ [](\A p \in Workers :
            IsCreate(p) =>
                /\ \A j, k \in 1..Len(calls[p]) :
                      (calls[p][j].step = calls[p][k].step
                          /\ calls[p][j].idx = calls[p][k].idx) => j = k
                /\ (response[p].status \in {400, 500} /\ local[p].org_id # 0) =>
                      /\ local[p].org_id \in organizations
                      /\ \A k \in 1..Len(calls[p]) :
                            calls[p][k].out = Ok => Applied(calls[p][k]))

\* C4 witness: access-policy creation fails after the organization, its
\* authorizations and a grant were applied
C4_Witness ==
    \E p \in Workers :
        /\ IsCreate(p) /\ response[p].status \in {400, 500}
        /\ Last(calls[p]).step = "add_sub_url_setting_app_id"
        /\ \E k \in 1..Len(calls[p]) :
              calls[p][k].step = "grant_organization_role" /\ calls[p][k].out = Ok

\* C5: of the POST /tenant requests whose names normalize to one tenant id, at
\* most one is answered 201 and at most one record of that id is stored, however
\* the steps of parallel requests interleave.
C5_OneCreationPerId ==
    /\ \A p, q \in Workers :
          ( /\ p # q /\ IsCreate(p) /\ IsCreate(q)
            /\ response[p].status = 201 /\ response[q].status = 201 )
          => Normalized(request[p].json.name) # Normalized(request[q].json.name)
    /\ \A t, u \in store : t.id = u.id => t = u

\* C6: a POST /tenant body without name or without description is answered 422
\* at once, and the request makes no call to the store, the identity provider or
\* the gateway.
C6_MissingFieldIs422 ==
    \A p \in Workers :
        ( /\ IsCreate(p)
          /\ local[p].pc # "start"
          /\ ("name" \notin DOMAIN request[p].json
                 \/ "description" \notin DOMAIN request[p].json) )
        => ( /\ response[p].status = 422
             /\ local[p].pc = "done"
             /\ calls[p] = <<>> )

\* C6 witness: a body with a name and no description got its 422
C6_Witness ==
    \E p \in Workers :
        /\ IsCreate(p)
        /\ response[p].status = 422
        /\ "name" \in DOMAIN request[p].json
        /\ "description" \notin DOMAIN request[p].json

\* the calls of request p that grant a role for entry e of its users list
GrantCalls(p, e) ==
    { k \in 1..Len(calls[p]) :
        calls[p][k].step = "grant_organization_role" /\ calls[p][k].idx = e }

\* C7: for each entry of the users list of a POST /tenant: every grant attempted
\* for an entry whose roles contain the admin role is owner (never member, also
\* with the consumer role present), every grant attempted for an entry with the
\* consumer role and without the admin role is member (never owner); and once
\* the loop is past the entry, that grant was made for the resolved user id.
C7_GrantByRoles ==
    \A p \in Workers :
        (IsCreate(p) /\ Len(calls[p]) > 0 /\ "users" \in DOMAIN request[p].json) =>
            \A e \in 1..Len(request[p].json.users) :
                LET user == request[p].json.users[e]
                    role == IF BROKER_ADMIN_ROLE \in user.roles THEN "owner" ELSE "member"
                    asked == BROKER_ADMIN_ROLE \in user.roles
                                \/ BROKER_CONSUMER_ROLE \in user.roles
                IN
                /\ \A k \in GrantCalls(p, e) : asked /\ calls[p][k].args[3] = role
                /\ (asked /\ e <= local[p].i) =>
                      /\ \E k \in GrantCalls(p, e) : calls[p][k].out = Ok
                      /\ [org |-> local[p].org_id, user_id |-> KeyrockUserId(user.name),
                          role |-> role] \in members

\* C7 witness: a created tenant with an entry holding both roles and an entry
\* holding the consumer role only
C7_Witness ==
    \E p \in Workers :
        /\ IsCreate(p) /\ response[p].status = 201
        /\ "users" \in DOMAIN request[p].json
        /\ \E e, f \in 1..Len(request[p].json.users) :
              /\ request[p].json.users[e].roles = {BROKER_ADMIN_ROLE, BROKER_CONSUMER_ROLE}
              /\ request[p].json.users[f].roles = {BROKER_CONSUMER_ROLE}

\* C8: after a 201, every entry of the users list had its user id resolved and
\* exactly one organization role granted.
C8_EveryUserGranted ==
    \A p \in Workers :
        (IsCreate(p) /\ response[p].status = 201 /\ "users" \in DOMAIN request[p].json) =>
            \A e \in 1..Len(request[p].json.users) :
                /\ \E k \in 1..Len(calls[p]) :
                      /\ calls[p][k].step = "get_user_id" /\ calls[p][k].idx = e
                      /\ calls[p][k].out = Ok
                /\ Cardinality(GrantCalls(p, e)) = 1

\* the request of p is a GET /tenant/<id> whose lookup in the store answered
Retrieved(p) ==
    /\ request[p].handler = "get_tenant"
    /\ local[p].pc # "start"
    /\ calls[p][1].out = Ok

\* C9: a GET /tenant/<id> whose lookup answers gets 404 exactly when no record
\* has that id, 403 exactly when the record is owned by someone else, both
\* without a call to the identity provider; 200 goes to the owner of an
\* existing record only.
C9_Retrieval ==
    \A p \in Workers :
        Retrieved(p) =>
            LET found == { t \in store : t.id = request[p].tenant_id }
                own == { t \in found : t.user_id = request[p].user_info.id }
                status == response[p].status
            IN
            /\ found = {} <=> status = 404
            /\ (found # {} /\ own = {}) <=> status = 403
            /\ status \in {403, 404} =>
                  /\ local[p].pc = "done"
                  /\ \A k \in 1..Len(calls[p]) : calls[p][k].client # "keyrock"
            /\ status = 200 => own # {}

\* C9 witness: a record of another user was asked for and refused
C9_Witness ==
    \E p \in Workers :
        /\ Retrieved(p)
        /\ response[p].status = 403
        /\ \E t \in store : t.id = request[p].tenant_id

\* C10: every tenant in a 200 answer of GET /tenant is a stored record whose
\* owner is the caller, and its organization was created by the caller.
C10_ListOnlyOwn ==
    \A p \in Workers :
        (request[p].handler = "get" /\ response[p].status = 200) =>
            \A k \in 1..Len(response[p].body) :
                LET tenant == response[p].body[k]
                    caller == request[p].user_info.id
                IN
                /\ tenant.user_id = caller
                /\ \E t \in store :
                      /\ t.id = tenant.id /\ t.user_id = caller
                      /\ t.tenant_organization = tenant.tenant_organization
                /\ [org |-> tenant.tenant_organization, user_id |-> caller,
                    role |-> "owner"] \in members

\* C10 witness: two callers created a tenant each, and one of them lists
C10_Witness ==
    \E p \in Workers :
        /\ request[p].handler = "get" /\ response[p].status = 200
        /\ Len(response[p].body) = 1
        /\ \E t \in store : t.user_id # request[p].user_info.id

\* C11: in a POST /tenant, the id looked up in the store, the id the two access
\* policies are scoped to and the id saved all equal the request name lower-cased
\* with every space replaced by an underscore; after a 201 the store holds the
\* record with that id, the request's name and description as sent, the caller's
\* id as owner and the organization of this request, which exists, has the
\* caller as owner and is the organization of no other record.
C11_IdAndRecord ==
    \A p \in Workers :
        (IsCreate(p) /\ Len(calls[p]) > 0) =>
            LET json == request[p].json
                tid == Normalized(json.name)
                caller == request[p].user_info.id
            IN
            /\ \A k \in 1..Len(calls[p]) :
                  LET c == calls[p][k] IN
                  /\ c.step = "get_tenant" => c.args = <<tid>>
                  /\ c.step = "add_sub_url_setting_app_id" =>
                        \A j \in 1..Len(c.args[2]) :
                            c.args[2][j].settings.required_headers
                                = << [key |-> "Fiware-Service", value |-> tid] >>
                  /\ c.step = "save_tenant" =>
                        c.args = <<tid, json.name, json.description, caller,
                                   local[p].org_id>>
            /\ response[p].status = 201 =>
                  /\ [id |-> tid, name |-> json.name, description |-> json.description,
                      user_id |-> caller, tenant_organization |-> local[p].org_id] \in store
                  /\ local[p].org_id \in organizations
                  /\ [org |-> local[p].org_id, user_id |-> caller, role |-> "owner"] \in members
                  /\ \A t, u \in store :
                        t.tenant_organization = u.tenant_organization => t = u

\* C11 witness: a second tenant was created, under a name with a capital and a space
C11_Witness ==
    \E p \in Workers :
        /\ IsCreate(p) /\ response[p].status = 201
        /\ request[p].json.name = <<"A", " ", "B">>
        /\ Cardinality(store) = 2
        /\ \E t \in store : t.id = <<"a", "_", "b">> /\ t.name = <<"A", " ", "B">>

\* the ids of the users of a tenant object of a response
UserIdsOf(tenant) == { tenant.users[k].id : k \in 1..Len(tenant.users) }
\* the ids of the current members of organization `org`
MemberIdsOf(org) == { m.user_id : m \in { n \in members : n.org = org } }

\* C12: the step of a POST /tenant that answers 201 leaves in the store a record
\* with the normalized name as id and the caller as owner, and records stay; a
\* GET /tenant/<id> for the id of a record, all of whose calls answered, gets
\* 200 with that id and with the current members of the record's organization
\* as users when the caller is the record's owner, and 403 when it is not.
C12_CreateThenRetrieve ==
    /\ [][ /\ \A p \in Workers :
                (IsCreate(p) /\ response[p].status = 0 /\ response'[p].status = 201) =>
                    \E t \in store' :
                        /\ t.id = Normalized(request[p].json.name)
                        /\ t.user_id = request[p].user_info.id
           /\ store \subseteq store' ]_vars
    /\ [](\A p \in Workers :
            ( /\ Retrieved(p)
              /\ local[p].pc = "done"
              /\ \A k \in 1..Len(calls[p]) : calls[p][k].out = Ok ) =>
                \A t \in store :
                    t.id = request[p].tenant_id =>
                        IF t.user_id = request[p].user_info.id
                        THEN /\ response[p].status = 200
                             /\ response[p].body.id = t.id
                             /\ UserIdsOf(response[p].body) = MemberIdsOf(t.tenant_organization)
                        ELSE response[p].status = 403)

\* C12 witness: the creator retrieves a tenant with a listed member besides the creator
C12_Witness ==
    \E p \in Workers :
        /\ Retrieved(p)
        /\ response[p].status = 200
        /\ Cardinality(UserIdsOf(response[p].body)) = 2

\* the statuses of the domain validation errors
ValidationStatuses == {422, 409, 404, 403}

\* C13 as stated: a request answered 422, 409, 404 or 403 has made no call to
\* the store, the identity provider or the gateway.
C13_ErrorsBeforeAnyCall ==
    \A p \in Workers :
        response[p].status \in ValidationStatuses => calls[p] = <<>>

\* C13 amended: a request answered 422 has made no call at all; a request
\* answered 409, 404 or 403 has made exactly one call, the lookup of the tenant
\* id in the store, which answered, and no call to the identity provider or the
\* gateway.
C13_ErrorsBeforeProviderCalls ==
    \A p \in Workers :
        /\ response[p].status = 422 => calls[p] = <<>>
        /\ response[p].status \in {409, 404, 403} =>
              /\ Len(calls[p]) = 1
              /\ calls[p][1].client = "database"
              /\ calls[p][1].step = "get_tenant"
              /\ calls[p][1].out = Ok
              /\ \A k \in 1..Len(calls[p]) :
                    calls[p][k].client \notin {"keyrock", "umbrella"}

\* C13 witness: a duplicate was answered 409, after the lookup in the store
C13_Witness ==
    \E p \in Workers :
        /\ IsCreate(p)
        /\ response[p].status = 409
        /\ Len(calls[p]) = 1
        /\ calls[p][1].client = "database"

\* the tenant objects of a 200 answer of GET /tenant or GET /tenant/<id>
ResponseTenants(p) ==
    IF request[p].handler = "get"
    THEN { response[p].body[k] : k \in 1..Len(response[p].body) }
    ELSE { response[p].body }

\* organization roles of the identity provider, and one it does not have
ProviderRoles == {"owner", "member", "guest"}
\* the roles the specification derives from a provider role
DerivedRoles(role) ==
    IF role = "owner" THEN {BROKER_CONSUMER_ROLE, BROKER_ADMIN_ROLE}
    ELSE {BROKER_CONSUMER_ROLE}
Elements(s) == { s[k] : k \in 1..Len(s) }

\* C14: the roles derived from a member depend on its provider role only: the
\* consumer role always, the admin role as well exactly for owner; and every
\* tenant of a 200 answer of GET /tenant and GET /tenant/<id> lists each current
\* member of its organization once, with its id and these derived roles.
C14_RoleMapping ==
    /\ \A r \in ProviderRoles, u \in UserNames :
          LET roles == Elements(_map_roles([user_id |-> KeyrockUserId(u), name |-> u,
                                            role |-> r]))
          IN  /\ roles = DerivedRoles(r)
              /\ BROKER_CONSUMER_ROLE \in roles
              /\ BROKER_ADMIN_ROLE \in roles <=> r = "owner"
    /\ \A p \in Workers :
          (request[p].handler \in {"get", "get_tenant"} /\ response[p].status = 200) =>
              \A tenant \in ResponseTenants(p) :
                  LET ms == { m \in members : m.org = tenant.tenant_organization } IN
                  /\ Len(tenant.users) = Cardinality(ms)
                  /\ \A m \in ms :
                        \E k \in 1..Len(tenant.users) :
                            /\ tenant.users[k].id = m.user_id
                            /\ Elements(tenant.users[k].roles) = DerivedRoles(m.role)
                  /\ \A k \in 1..Len(tenant.users) :
                        \E m \in ms :
                            /\ tenant.users[k].id = m.user_id
                            /\ Elements(tenant.users[k].roles) = DerivedRoles(m.role)

\* C14 witness: a list of two tenants, one of them with an owner and a member
C14_Witness ==
    \E p \in Workers :
        /\ request[p].handler = "get" /\ response[p].status = 200
        /\ Len(response[p].body) = 2
        /\ \E tenant \in ResponseTenants(p) :
              \E j, k \in 1..Len(tenant.users) :
                  /\ Elements(tenant.users[j].roles) = {BROKER_CONSUMER_ROLE}
                  /\ BROKER_ADMIN_ROLE \in Elements(tenant.users[k].roles)

\* the calls of the users part of a POST /tenant, from entry k on: the
\* resolution of the entry's user and, where its roles ask for one, its grant
RECURSIVE UserCallsFrom(_, _)
UserCallsFrom(users, k) ==
    IF k > Len(users) THEN <<>>
    ELSE << <<"keyrock", "get_user_id", k>> >>
         \o (IF users[k].roles \cap {BROKER_CONSUMER_ROLE, BROKER_ADMIN_ROLE} # {}
             THEN << <<"keyrock", "grant_organization_role", k>> >>
             ELSE <<>>)
         \o UserCallsFrom(users, k + 1)

\* the calls of a POST /tenant with body `json` in the order of the specification
OrderedCalls(json) ==
    << <<"database", "get_tenant", 0>>,
       <<"keyrock", "create_organization", 0>>,
       <<"keyrock", "authorize_organization", 0>>,
       <<"keyrock", "authorize_seller", 0>>,
       <<"keyrock", "authorize_customer", 0>>,
       <<"keyrock", "authorize_admin", 0>> >>
    \o (IF "users" \in DOMAIN json THEN UserCallsFrom(json.users, 1) ELSE <<>>)
    \o << <<"umbrella", "add_sub_url_setting_app_id", 0>>,
          <<"database", "save_tenant", 0>> >>

\* C15: the calls a POST /tenant has made are an initial part of: duplicate
\* check, organization creation, gateway-application authorization, the three
\* marketplace authorizations, resolution and grant user by user, access-policy
\* creation, save; every call but the last one made has returned; a record of
\* the request is in the store only when the whole list was made and returned,
\* and 201 is answered only then, after the save returned.
C15_StepsInOrder ==
    \A p \in Workers :
        (IsCreate(p) /\ Len(calls[p]) > 0) =>
            LET order == OrderedCalls(request[p].json)
                n == Len(calls[p])
                complete == /\ n = Len(order)
                            /\ \A k \in 1..n : calls[p][k].out = Ok
            IN
            /\ n <= Len(order)
            /\ \A k \in 1..n :
                  /\ <<calls[p][k].client, calls[p][k].step, calls[p][k].idx>> = order[k]
                  /\ k < n => calls[p][k].out = Ok
            /\ (\E t \in store : t.tenant_organization = local[p].org_id) => complete
            /\ response[p].status = 201 =>
                  /\ complete
                  /\ \E t \in store : t.tenant_organization = local[p].org_id

\* C15 witness: a tenant created with two users, each resolved and granted
C15_Witness ==
    \E p \in Workers :
        /\ IsCreate(p) /\ response[p].status = 201
        /\ Len(calls[p]) = 12
        /\ calls[p][10].step = "grant_organization_role" /\ calls[p][10].idx = 2

\* C16: a GET /tenant answers nothing before it is done, and then 200 or 500;
\* when any of its calls raised (the store read, or a membership fetch, a
\* rejection by the identity provider included) the answer is 500 with the
\* generic message and no tenant; 200 comes only with every call returned, one
\* membership fetch per tenant of the caller, and every tenant of the caller in
\* the list with its users.
C16_ListAllOrNothing ==
    \A p \in Workers :
        request[p].handler = "get" =>
            LET own == { t \in store : t.user_id = request[p].user_info.id }
                failed == \E k \in 1..Len(calls[p]) : calls[p][k].out # Ok
                fetches == { k \in 1..Len(calls[p]) :
                                calls[p][k].step = "get_organization_members" }
            IN
            /\ local[p].pc # "done" => response[p] = NoResponse
            /\ local[p].pc = "done" => response[p].status \in {200, 500}
            /\ failed =>
                  /\ local[p].pc = "done"
                  /\ response[p].status = 500
                  /\ response[p].body = [error |-> "An error occurred reading tenants"]
            /\ response[p].status = 200 =>
                  /\ ~ failed
                  /\ Len(response[p].body) = Cardinality(own)
                  /\ Cardinality(fetches) = Cardinality(own)
                  /\ \A t \in own :
                        \E k \in 1..Len(response[p].body) :
                            /\ response[p].body[k].id = t.id
                            /\ "users" \in DOMAIN response[p].body[k]

\* C16 witness: the members of the caller's first tenant were fetched, the
\* fetch for the second was rejected by the identity provider, and the answer is 500
C16_Witness ==
    \E p \in Workers :
        /\ request[p].handler = "get"
        /\ response[p].status = 500
        /\ Len(calls[p]) = 3
        /\ calls[p][2].out = Ok
        /\ calls[p][3].out.cls = "KeyrockError"

\* an entry of users without name or without roles
Malformed(user) == "name" \notin DOMAIN user \/ "roles" \notin DOMAIN user

\* C17: a POST /tenant whose users list has an entry without name or without
\* roles, at any position, is answered 422 at once (with the message of the
\* users check when name and description are there); the request makes no call,
\* and the store, the identity provider and the gateway stay as they were: no
\* organization, no grant, no policy, no record.
C17_UsersCheckedFirst ==
    \A p \in Workers :
        ( /\ IsCreate(p)
          /\ local[p].pc # "start"
          /\ "users" \in DOMAIN request[p].json
          /\ \E k \in 1..Len(request[p].json.users) : Malformed(request[p].json.users[k]) )
        => ( /\ response[p].status = 422
             /\ local[p].pc = "done"
             /\ calls[p] = <<>>
             /\ external = <<{}, {}, {}, {}, {}>>
             /\ {"name", "description"} \subseteq DOMAIN request[p].json =>
                   response[p].body =
                       [error |-> "Missing required field in user specification"] )

\* C17 witness: a 422 for a list whose first entry is a valid consumer and
\* whose second entry has no roles
C17_Witness ==
    \E p \in Workers :
        /\ IsCreate(p)
        /\ response[p].status = 422
        /\ {"name", "description", "users"} \subseteq DOMAIN request[p].json
        /\ Len(request[p].json.users) = 2
        /\ request[p].json.users[1] = [name |-> "bob", roles |-> {BROKER_CONSUMER_ROLE}]
        /\ "roles" \notin DOMAIN request[p].json.users[2]

\* the request of p is one of the three GET routes, and is in progress
Reading(p) ==
    /\ request[p].handler \in {"get", "get_tenant", "get_users"}
    /\ local[p].pc \notin {"idle", "done"}

\* the request of p is a POST /tenant in progress for an id that has a record
Recreating(p) ==
    /\ IsCreate(p)
    /\ local[p].pc \notin {"idle", "done"}
    /\ "name" \in DOMAIN request[p].json
    /\ \E t \in store : t.id = Normalized(request[p].json.name)

\* C18: every record of the store is still there, as it was, after every step;
\* the steps of GET /tenant, GET /tenant/<id> and GET /users, and the arrival of
\* a request, change nothing in the store, the identity provider and the
\* gateway; a POST /tenant for an id that has a record leaves the store as it
\* is; and no record carries the users of a response.
C18_RecordsImmutable ==
    /\ [][ /\ \A t \in store : t \in store'
           /\ (\E p \in Workers : Reading(p)) => external' = external
           /\ Quiescent => external' = external
           /\ (\E p \in Workers : Recreating(p)) => store' = store ]_vars
    /\ [](\A t \in store :
            DOMAIN t = {"id", "name", "description", "user_id", "tenant_organization"})

\* C18 witness: with two records stored, the owner of one retrieved it with its
\* users, and the record in the store has none
C18_Witness ==
    \E p \in Workers :
        /\ request[p].handler = "get_tenant"
        /\ response[p].status = 200
        /\ "users" \in DOMAIN response[p].body
        /\ Cardinality(store) = 2
        /\ \E t \in store : t.id = response[p].body.id /\ "users" \notin DOMAIN t

====
